---- MODULE Spec2Model ----
(***************************************************************************)
(* A model of the artifact resolution pipeline of postgresql-embedded:     *)
(*   postgresql_archive/src/archive.rs       get_release, get_version,     *)
(*                                           get_asset,                    *)
(*                                           get_archive_for_target,       *)
(*                                           extract                       *)
(*   postgresql_extensions/.../portal_corp/repository.rs                   *)
(*                                           PortalCorp::initialize,       *)
(*                                           PortalCorp::install           *)
(* Strings are sequences of one-character strings (tags, checksum bodies)  *)
(* or sequences of path / name segments (asset names, file names, URLs).   *)
(***************************************************************************)
EXTENDS Integers, Sequences, FiniteSets, TLC

VARIABLES
    \* ---- archive.rs: one call of get_release / get_version / get_asset /
    \*      get_archive_for_target against one remote catalog
    catalog,      \* the releases the catalog lists, in listing order
    pageSize,     \* how many releases the catalog puts on one page
    body,         \* the text served at the checksum asset's download url
    op,           \* the function that was called
    version,      \* its version argument
    target,       \* its target argument
    pc,           \* where the call stands
    page,         \* get_release: let mut page
    result,       \* get_release: let mut result: Option<Release>
    release,      \* get_asset: the release get_release returned
    found,        \* get_archive_for_target: (asset_version, asset, asset_hash)
    hash,         \* get_archive_for_target: let hash
    requests,     \* every request sent so far, in order
    ret,          \* what the call returned
    \* ---- archive.rs: one call of extract
    entries,      \* the entries of the tar archive, in order
    dirs,         \* the directories on disk
    files,        \* the regular files on disk
    xpos,         \* how many entries the loop has consumed
    xwritten,     \* every path extract has created or written, in order
    xret,         \* what extract returned
    \* ---- portal_corp/repository.rs: one call of PortalCorp::install
    zip,          \* the zip bundle: whether it opens, and its entries
    ipc,          \* where the call stands
    ipos,         \* install: the loop index i
    ifiles,       \* install: let mut files
    disk,         \* every fs::write so far, in order
    iret,         \* what install returned
    \* ---- the two process-wide registries
    matchers,     \* postgresql_archive::matcher::registry
    repositories, \* postgresql_archive::repository::registry
    resolved      \* the last resolve call and what it returned

aVars == <<catalog, pageSize, body, op, version, target, pc, page, result,
           release, found, hash, requests, ret>>

xVars == <<entries, dirs, files, xpos, xwritten, xret>>
iVars == <<zip, ipc, ipos, ifiles, disk, iret>>
rVars == <<matchers, repositories, resolved>>

vars == <<aVars, xVars, iVars, rVars>>

\* ------------------------------------------------------------------ bounds
MaxReleases == 3
MaxPageSize == 2
MaxAssets == 3

\* ------------------------------------------------------- Option<T>, helpers
None == {}
Some(x) == {x}
is_some(o) == o # {}
unwrap(o) == CHOOSE x \in o : TRUE

Min(a, b) == IF a < b THEN a ELSE b

\* sequences over S of length lo..hi
SeqsUpTo(S, hi) == UNION {[1..n -> S] : n \in 0..hi}
\* sequences without repeated elements
Injective(s) == \A i, j \in DOMAIN s : i # j => s[i] # s[j]

starts_with(s, prefix) ==
    Len(prefix) <= Len(s) /\ SubSeq(s, 1, Len(prefix)) = prefix
ends_with(s, suffix) ==
    Len(suffix) <= Len(s) /\ SubSeq(s, Len(s) - Len(suffix) + 1, Len(s)) = suffix

\* ------------------------------------------------ decimal text <-> numbers
Digits == <<"0", "1", "2", "3", "4", "5", "6", "7", "8", "9">>
IsDigit(c) == \E i \in DOMAIN Digits : Digits[i] = c
DigitVal(c) == (CHOOSE i \in DOMAIN Digits : Digits[i] = c) - 1

RECURSIVE ParseNat(_, _)
ParseNat(acc, s) ==
    IF s = <<>> THEN acc ELSE ParseNat(acc * 10 + DigitVal(Head(s)), Tail(s))

\* str::parse::<u64>: a non-empty run of decimal digits
IsNumber(s) == s # <<>> /\ \A i \in DOMAIN s : IsDigit(s[i])

RECURSIVE NatToString(_)
NatToString(n) ==
    IF n < 10 THEN <<Digits[n + 1]>>
    ELSE NatToString(n \div 10) \o <<Digits[(n % 10) + 1]>>

\* str::split('.')
RECURSIVE Split(_, _)
Split(s, cur) ==
    IF s = <<>> THEN <<cur>>
    ELSE IF Head(s) = "." THEN <<cur>> \o Split(Tail(s), <<>>)
    ELSE Split(Tail(s), Append(cur, Head(s)))

\* ----------------------------------------------------------------- Version
Version(major, minor, rel) == [major |-> major, minor |-> minor, release |-> rel]

\* Version::from_str: major[.minor[.release]], each a decimal number; None is
\* the parse error
from_str(tag) ==
    LET parts == Split(tag, <<>>)
        opt(i) == IF i <= Len(parts) THEN Some(ParseNat(0, parts[i])) ELSE None
    IN IF Len(parts) \in 1..3 /\ \A i \in DOMAIN parts : IsNumber(parts[i])
       THEN Some(Version(ParseNat(0, parts[1]), opt(2), opt(3)))
       ELSE None

\* Display for Version
to_string(v) ==
    NatToString(v.major)
      \o (IF is_some(v.minor) THEN <<".">> \o NatToString(unwrap(v.minor)) ELSE <<>>)
      \o (IF is_some(v.release) THEN <<".">> \o NatToString(unwrap(v.release)) ELSE <<>>)

\* Version::matches: every component present in self equals the other's
matches(self, other) ==
    /\ self.major = other.major
    /\ (is_some(self.minor) => self.minor = other.minor)
    /\ (is_some(self.release) => self.release = other.release)

\* Ord for Option<u64>: None sorts before every Some
OptKey(o) == IF is_some(o) THEN unwrap(o) ELSE 0 - 1

\* Ord for Version: major, then minor, then release
VersionGt(a, b) ==
    \/ a.major > b.major
    \/ a.major = b.major /\ OptKey(a.minor) > OptKey(b.minor)
    \/ a.major = b.major /\ a.minor = b.minor /\ OptKey(a.release) > OptKey(b.release)

\* ------------------------------------------------- releases and their assets
AssetName(tag, tgt) == <<"postgresql-">> \o tag \o <<"-">> \o tgt \o <<".tar.gz">>
Asset(name) == [name |-> name, browser_download_url |-> <<"https://dl/">> \o name]
Release(tag, assets) == [tag_name |-> tag, assets |-> assets]

\* ------------------------------------------------------ the remote catalog
\* tags a catalog may publish: four well-formed ones and a malformed one
T16_0_0 == <<"1", "6", ".", "0", ".", "0">>
T16_1_0 == <<"1", "6", ".", "1", ".", "0">>
T16_2_0 == <<"1", "6", ".", "2", ".", "0">>
T15_4_0 == <<"1", "5", ".", "4", ".", "0">>
TBad == <<"v", "1", "6", ".", "3", ".", "0">>
Tags == {T16_0_0, T16_1_0, T16_2_0, T15_4_0, TBad}

Linux == <<"x86_64-unknown-linux-musl">>
Wasm == <<"wasm64-unknown-unknown">>
Targets == {Linux, Wasm}

\* what a release may attach: an archive or a checksum for a target, or
\* something unrelated
AssetKinds ==
    {[kind |-> k, target |-> t] : k \in {"archive", "hash"}, t \in Targets}
      \cup {[kind |-> "other", target |-> Linux]}
AssetOf(tag, a) ==
    Asset(CASE a.kind = "archive" -> AssetName(tag, a.target)
            [] a.kind = "hash" -> AssetName(tag, a.target) \o <<".sha256">>
            [] OTHER -> <<"README.md">>)
AssetsOf(tag, layout) == [i \in DOMAIN layout |-> AssetOf(tag, layout[i])]
FullLayout ==
    <<[kind |-> "archive", target |-> Linux], [kind |-> "hash", target |-> Linux]>>

\* a catalog: releases with distinct tags, each with the assets of `layout`
Catalogs(tags, n, layout) ==
    {[i \in DOMAIN s |-> Release(s[i], AssetsOf(s[i], layout))] :
        s \in {t \in SeqsUpTo(tags, n) : Injective(t)}}

\* GET {url}?page={n}&per_page=100: the n-th page of the listing, empty past
\* its end. The catalog serves pageSize releases a page, at most per_page.
Page(n) ==
    SubSeq(catalog, (n - 1) * pageSize + 1, Min(n * pageSize, Len(catalog)))

\* GET {url}/tags/{tag}: the release published under exactly that tag, if any
ByTag(tag) ==
    IF \E i \in DOMAIN catalog : catalog[i].tag_name = tag
    THEN Some(catalog[CHOOSE i \in DOMAIN catalog : catalog[i].tag_name = tag])
    ELSE None

\* ------------------------------------------------------------ what is returned
NoRelease == Release(<<>>, <<>>)
Pending == [status |-> "Pending", err |-> "", msg |-> <<>>, value |-> <<>>]
Ok(v) == [status |-> "Ok", err |-> "", msg |-> <<>>, value |-> v]
Err(kind, msg) == [status |-> "Err", err |-> kind, msg |-> msg, value |-> <<>>]

Request(kind, arg) == [kind |-> kind, arg |-> arg]

\* --------------------------------------------------------------- get_release
\* page += 2
NextPageSkip(p) == p + 2
FirstPage == 1
\* ("per_page", "100")
PER_PAGE == 100
NextPage(p) == p + 1

FullySpecified(v) == is_some(v.minor) /\ is_some(v.release)

\* Retain without the comparison with the release retained so far
RetainLast(v, res, rel, release_version) ==
    IF matches(v, release_version) THEN Some(rel) ELSE res

\* the body of `if version.matches(&release_version) { ... }`
Retain(v, res, rel, release_version) ==
    IF matches(v, release_version)
    THEN IF is_some(res)
         THEN IF VersionGt(release_version, unwrap(from_str(unwrap(res).tag_name)))
              THEN Some(rel)
              ELSE res
         ELSE Some(rel)
    ELSE res

\* the loop with a tag that does not parse skipped instead of reported
RECURSIVE ScanReleasesSkip(_, _, _)
ScanReleasesSkip(v, res, releases) ==
    IF releases = <<>> THEN [ok |-> TRUE, result |-> res, bad |-> <<>>]
    ELSE LET rel == Head(releases)
             parsed == from_str(rel.tag_name)
         IN ScanReleasesSkip(v, IF parsed = None THEN res
                                ELSE IF matches(v, unwrap(parsed)) /\ res = None
                                THEN Some(rel) ELSE res,
                             Tail(releases))

\* `for release in response_releases`: the first tag that does not parse ends
\* the call with that error
RECURSIVE ScanReleases(_, _, _)
ScanReleases(v, res, releases) ==
    IF releases = <<>> THEN [ok |-> TRUE, result |-> res, bad |-> <<>>]
    ELSE LET rel == Head(releases)
             parsed == from_str(rel.tag_name)
         IN IF parsed = None
            THEN [ok |-> FALSE, result |-> res, bad |-> rel.tag_name]
            ELSE ScanReleases(v, Retain(v, res, rel, unwrap(parsed)), Tail(releases))

\* get_release has returned r to its caller
Returned(r) ==
    IF r.status = "Err" THEN pc' = "done" /\ ret' = r /\ release' = release
    ELSE CASE op = "get_release" -> pc' = "done" /\ ret' = r /\ release' = release
           [] op = "get_version" ->
                /\ pc' = "done"
                /\ release' = release
                /\ LET parsed == from_str(r.value[1].tag_name)
                   IN ret' = IF parsed = None
                             THEN Err("InvalidVersion", r.value[1].tag_name)
                             ELSE Ok(<<unwrap(parsed)>>)
           [] OTHER -> pc' = "asset" /\ ret' = ret /\ release' = r.value[1]

\* the request for the exact tag, and what comes of it
LookupTag ==
    /\ pc = "release"
    /\ FullySpecified(version)
    /\ requests' = Append(requests, Request("tag", to_string(version)))
    /\ \E sent \in BOOLEAN :
          Returned(IF ~sent THEN Err("Transport", <<>>)
                   ELSE IF ByTag(to_string(version)) = None
                        THEN Err("HttpStatus", <<"404">>)
                        ELSE Ok(<<unwrap(ByTag(to_string(version)))>>))
    /\ UNCHANGED <<catalog, pageSize, body, op, version, target, page, result,
                   found, hash>>
    /\ UNCHANGED <<xVars, iVars, rVars>>

\* one turn of the loop: the request for `page`, and what comes of it
ListPage ==
    /\ pc = "release"
    /\ ~FullySpecified(version)
    /\ requests' = Append(requests, Request("page", <<NatToString(page),
                                                       NatToString(PER_PAGE)>>))
    /\ \E sent \in BOOLEAN :
          IF ~sent
          THEN Returned(Err("Transport", <<>>)) /\ UNCHANGED <<page, result>>
          ELSE IF Page(page) = <<>>
          THEN /\ Returned(IF is_some(result) THEN Ok(<<unwrap(result)>>)
                           ELSE Err("ReleaseNotFound", to_string(version)))
               /\ UNCHANGED <<page, result>>
          ELSE LET scan == ScanReleases(version, result, Page(page))
               IN IF scan.ok
                  THEN /\ result' = scan.result
                       /\ page' = NextPage(page)
                       /\ UNCHANGED <<pc, ret, release>>
                  ELSE /\ Returned(Err("InvalidVersion", scan.bad))
                       /\ UNCHANGED <<page, result>>
    /\ UNCHANGED <<catalog, pageSize, body, op, version, target, found, hash>>
    /\ UNCHANGED <<xVars, iVars, rVars>>

\* ----------------------------------------------------------------- get_asset
\* MatchAsset taking the archive for its own checksum
MatchAssetBoth(pair, release_asset, asset_name, asset_hash_name) ==
    IF release_asset.name = asset_name
    THEN [asset |-> Some(release_asset), asset_hash |-> Some(release_asset)]
    ELSE IF release_asset.name = asset_hash_name
    THEN [asset |-> pair.asset, asset_hash |-> Some(release_asset)]
    ELSE pair

\* one turn of `for release_asset in release.assets`, before the break test
MatchAsset(pair, release_asset, asset_name, asset_hash_name) ==
    IF release_asset.name = asset_name
    THEN [asset |-> Some(release_asset), asset_hash |-> pair.asset_hash]
    ELSE IF release_asset.name = asset_hash_name
    THEN [asset |-> pair.asset, asset_hash |-> Some(release_asset)]
    ELSE pair

RECURSIVE ScanAssets(_, _, _, _)
ScanAssets(pair, assets, asset_name, asset_hash_name) ==
    IF assets = <<>> THEN pair
    ELSE LET next == MatchAsset(pair, Head(assets), asset_name, asset_hash_name)
         IN IF is_some(next.asset) /\ is_some(next.asset_hash)
            THEN next
            ELSE ScanAssets(next, Tail(assets), asset_name, asset_hash_name)

\* get_asset, after get_release has returned `rel`
GetAssetResult(rel, tgt) ==
    LET parsed == from_str(rel.tag_name)
        asset_version == unwrap(parsed)
        asset_name == AssetName(to_string(asset_version), tgt)
        asset_hash_name == asset_name \o <<".sha256">>
        pair == ScanAssets([asset |-> None, asset_hash |-> None], rel.assets,
                           asset_name, asset_hash_name)
    IN IF parsed = None THEN Err("InvalidVersion", rel.tag_name)
       ELSE IF is_some(pair.asset) /\ is_some(pair.asset_hash)
       THEN Ok(<<asset_version, unwrap(pair.asset), unwrap(pair.asset_hash)>>)
       ELSE Err("AssetNotFound", asset_name)

SelectAsset ==
    /\ pc = "asset"
    /\ LET r == GetAssetResult(release, target)
       IN IF r.status = "Err" \/ op = "get_asset"
          THEN pc' = "done" /\ ret' = r /\ found' = found
          ELSE pc' = "hash" /\ ret' = ret /\ found' = r.value
    /\ UNCHANGED <<catalog, pageSize, body, op, version, target, page, result,
                   release, hash, requests>>
    /\ UNCHANGED <<xVars, iVars, rVars>>

\* ---------------------------------------------------- get_archive_for_target
HASH_LEN == 64
HexDigits ==
    {"0", "1", "2", "3", "4", "5", "6", "7", "8", "9", "a", "b", "c", "d", "e", "f"}

\* Regex::new(r"[0-9a-f]{64}").find(text): the leftmost match, if any
MatchesAt(text, i) ==
    /\ i + HASH_LEN - 1 <= Len(text)
    /\ \A j \in i..(i + HASH_LEN - 1) : text[j] \in HexDigits
\* find returning the rightmost match
findLast(text) ==
    IF \E i \in DOMAIN text : MatchesAt(text, i)
    THEN LET i == CHOOSE k \in DOMAIN text :
                      MatchesAt(text, k) /\ \A m \in (k + 1)..Len(text) : ~MatchesAt(text, m)
         IN Some(SubSeq(text, i, i + HASH_LEN - 1))
    ELSE None
find(text) ==
    IF \E i \in DOMAIN text : MatchesAt(text, i)
    THEN LET i == CHOOSE k \in DOMAIN text :
                      MatchesAt(text, k) /\ \A m \in 1..(k - 1) : ~MatchesAt(text, m)
         IN Some(SubSeq(text, i, i + HASH_LEN - 1))
    ELSE None

\* the request for the checksum text, and the search for the hash in it
FetchHash ==
    /\ pc = "hash"
    /\ requests' = Append(requests, Request("hash", found[3].browser_download_url))
    /\ \E sent \in BOOLEAN :
          IF ~sent
          THEN pc' = "done" /\ ret' = Err("Transport", <<>>) /\ hash' = hash
          ELSE IF find(body) = None
          THEN pc' = "done" /\ ret' = Err("AssetHashNotFound", found[2].name)
                 /\ hash' = hash
          ELSE pc' = "bytes" /\ ret' = ret /\ hash' = unwrap(find(body))
    /\ UNCHANGED <<catalog, pageSize, body, op, version, target, page, result,
                   release, found>>
    /\ UNCHANGED <<xVars, iVars, rVars>>

\* the bytes served at a download url
BytesAt(url) == <<"bytes of">> \o url

\* the request for the archive
FetchArchive ==
    /\ pc = "bytes"
    /\ requests' = Append(requests, Request("archive", found[2].browser_download_url))
    /\ pc' = "done"
    /\ \E sent \in BOOLEAN :
          ret' = IF sent
                 THEN Ok(<<found[1], BytesAt(found[2].browser_download_url), hash>>)
                 ELSE Err("Transport", <<>>)
    /\ UNCHANGED <<catalog, pageSize, body, op, version, target, page, result,
                   release, found, hash>>
    /\ UNCHANGED <<xVars, iVars, rVars>>

\* ------------------------------------------------------- calls of archive.rs
Rep(c, n) == [i \in 1..n |-> c]
HashA == Rep("a", HASH_LEN)
HashB == Rep("0", HASH_LEN - 1) \o <<"f">>
Bodies ==
    { HashA \o <<" ", " ", "x", ".", "t", "g", "z", "\n">>,
      <<"S", "H", "A", "2", "5", "6", " ", "=", " ">> \o HashB,
      HashB \o <<"\n">> \o HashA,
      <<"f">> \o HashA,
      Rep("a", HASH_LEN - 1),
      Rep("a", HASH_LEN - 1) \o <<"g">> \o Rep("b", HASH_LEN - 1),
      Rep("A", HASH_LEN),
      <<>> }

Constraints ==
    { Version(16, None, None), Version(16, Some(1), None), Version(16, None, Some(0)),
      Version(15, None, None), Version(1, None, None),
      Version(16, Some(1), Some(0)), Version(16, Some(3), Some(0)),
      Version(1, Some(0), Some(0)) }

IdleArchive ==
    /\ catalog = <<>> /\ pageSize = 1 /\ body = <<>> /\ op = "" /\ pc = "idle"
    /\ version = Version(0, None, None) /\ target = <<>> /\ page = FirstPage
    /\ result = None /\ release = NoRelease /\ found = <<>> /\ hash = <<>>
    /\ requests = <<>> /\ ret = Pending
IdleExtract ==
    /\ entries = <<>> /\ dirs = {} /\ files = {} /\ xpos = 0 /\ xwritten = <<>>
    /\ xret = "idle"
IdleInstall ==
    /\ zip = [valid |-> FALSE, entries |-> <<>>] /\ ipc = "idle" /\ ipos = 0
    /\ ifiles = <<>> /\ disk = <<>> /\ iret = Pending
IdleRegistry ==
    /\ matchers = <<>> /\ repositories = <<>> /\ resolved = <<>>

Start ==
    /\ pc = "release"
    /\ page = FirstPage
    /\ result = None
    /\ release = NoRelease
    /\ found = <<>>
    /\ hash = <<>>
    /\ requests = <<>>
    /\ ret = Pending
    /\ IdleExtract /\ IdleInstall /\ IdleRegistry

\* get_release and get_version: any catalog, any constraint
InitRelease ==
    /\ op \in {"get_release", "get_version"}
    /\ catalog \in Catalogs(Tags, MaxReleases, FullLayout)
    /\ pageSize \in 1..Min(MaxPageSize, PER_PAGE)
    /\ version \in Constraints
    /\ target = Linux
    /\ body = <<>>
    /\ Start

\* get_asset: any asset list
InitAsset ==
    /\ op = "get_asset"
    /\ \E layout \in SeqsUpTo(AssetKinds, MaxAssets) :
          catalog \in Catalogs({T16_1_0, T16_2_0}, 2, layout)
    /\ pageSize = 1
    /\ version \in {Version(16, None, None), Version(16, Some(1), Some(0))}
    /\ target \in Targets
    /\ body = <<>>
    /\ Start

\* get_archive_for_target: any checksum text
InitArchive ==
    /\ op = "get_archive_for_target"
    /\ \E layout \in {FullLayout, SubSeq(FullLayout, 1, 1)} :
          catalog \in Catalogs({T16_1_0, TBad}, 2, layout)
    /\ pageSize = 1
    /\ version \in {Version(16, None, None), Version(16, Some(1), Some(0))}
    /\ target = Linux
    /\ body \in Bodies
    /\ Start

InitA == InitRelease \/ InitAsset \/ InitArchive

NextA == LookupTag \/ ListPage \/ SelectAsset \/ FetchHash \/ FetchArchive

SpecArchive == InitA /\ [][NextA]_vars

\* ------------------------------------------------------------------- extract
\* A path is the sequence of its components (Path::components); ".." is
\* ParentDir. The disk is the set of directories and the set of regular
\* files, each named by its resolved absolute path; <<>> is the root.
MaxEntries == 2

OutDir == <<"data", "pg">>
Parent(p) == IF p = <<>> THEN <<>> ELSE SubSeq(p, 1, Len(p) - 1)

\* where `rel`, followed from the directory `at`, leads; ok is FALSE when a
\* component on the way is not a directory
RECURSIVE Walk(_, _, _)
Walk(ds, at, rel) ==
    IF rel = <<>> THEN [ok |-> TRUE, path |-> at]
    ELSE IF at \notin ds THEN [ok |-> FALSE, path |-> at]
    ELSE Walk(ds, IF Head(rel) = ".." THEN Parent(at) ELSE Append(at, Head(rel)),
              Tail(rel))

\* Path::is_dir
is_dir(ds, at, rel) == LET w == Walk(ds, at, rel) IN w.ok /\ w.path \in ds

\* fs::create_dir_all: makes every missing directory on the way, and fails at
\* a component that is a regular file
RECURSIVE create_dir_all(_, _, _, _, _)
create_dir_all(ds, fs, at, rel, made) ==
    IF at \in fs THEN [ok |-> FALSE, dirs |-> ds, made |-> made]
    ELSE LET here == IF at \in ds THEN made ELSE Append(made, at)
         IN IF rel = <<>> THEN [ok |-> TRUE, dirs |-> ds \cup {at}, made |-> here]
            ELSE create_dir_all(ds \cup {at}, fs,
                                IF Head(rel) = ".." THEN Parent(at)
                                ELSE Append(at, Head(rel)),
                                Tail(rel), here)

\* File::create: the parent must be a directory and the path itself must not
\* be one
create(ds, at, rel) ==
    IF rel = <<>> \/ rel[Len(rel)] = ".." THEN [ok |-> FALSE, path |-> at]
    ELSE LET w == Walk(ds, at, SubSeq(rel, 1, Len(rel) - 1))
             file == Append(w.path, rel[Len(rel)])
         IN [ok |-> w.ok /\ w.path \in ds /\ file \notin ds, path |-> file]

\* file_header_path.strip_prefix(prefix), prefix being the first component
strip_prefix(path) == Tail(path)

\* one turn of `for file in archive.entries()?`
ExtractEntry ==
    /\ xret = "running"
    /\ xpos < Len(entries)
    /\ LET file_entry == entries[xpos + 1]
           file_header_path == file_entry.path
       IN IF file_header_path = <<>>
          THEN xret' = "Unexpected" /\ UNCHANGED <<dirs, files, xwritten>>
          ELSE LET stripped_file_header_path == strip_prefix(file_header_path)
               IN IF file_entry.size = 0 \/ is_dir(dirs, OutDir, stripped_file_header_path)
                  THEN LET r == create_dir_all(dirs, files, OutDir,
                                               stripped_file_header_path, <<>>)
                       IN /\ dirs' = r.dirs
                          /\ xwritten' = xwritten \o r.made
                          /\ xret' = IF r.ok THEN xret ELSE "IoError"
                          /\ files' = files
                  ELSE LET r == create(dirs, OutDir, stripped_file_header_path)
                       IN IF r.ok
                          THEN /\ files' = files \cup {r.path}
                               /\ xwritten' = Append(xwritten, r.path)
                               /\ UNCHANGED <<dirs, xret>>
                          ELSE xret' = "IoError" /\ UNCHANGED <<dirs, files, xwritten>>
    /\ xpos' = xpos + 1
    /\ UNCHANGED <<entries, aVars, iVars, rVars>>

\* the entries are exhausted: Ok(())
ExtractDone ==
    /\ xret = "running"
    /\ xpos = Len(entries)
    /\ xret' = "Ok"
    /\ UNCHANGED <<entries, dirs, files, xpos, xwritten, aVars, iVars, rVars>>

EntryPaths ==
    { <<"root">>, <<"root", "bin">>, <<"root", "bin", "postgres">>,
      <<"root", "share", "README">>, <<"root", "..", "evil">>,
      <<"root", "bin", "..", "..", "..", "etc", "passwd">>,
      <<"root", "bin", "..", "lib">>, <<>> }
Entries == {[path |-> p, size |-> n] : p \in EntryPaths, n \in {0, 1}}

InitExtract ==
    /\ entries \in SeqsUpTo(Entries, MaxEntries)
    /\ dirs = {<<>>, <<"data">>, OutDir}
    /\ files \in {{}, {<<"data", "pg", "bin">>}}
    /\ xpos = 0
    /\ xwritten = <<>>
    /\ xret = "running"
    /\ IdleArchive /\ IdleInstall /\ IdleRegistry

NextX == ExtractEntry \/ ExtractDone

SpecExtract == InitExtract /\ [][NextX]_vars

\* --------------------------------------------------- PortalCorp::install
\* A zip entry's name is the sequence of its path components; a component is
\* the sequence of the segments of a file name, the last one its suffix
\* ("vector.so" is <<"vector", ".so">>); ".." is <<"..">>.
MaxZipEntries == 3

LibraryDir == <<"lib">>
ExtensionDir == <<"share", "extension">>

\* Path::file_name: the last component, unless it is ".." or there is none
file_name(path) ==
    IF path = <<>> \/ path[Len(path)] = <<"..">> THEN None
    ELSE Some(path[Len(path)])
\* Option::unwrap_or_default
unwrap_or_default(o) == IF is_some(o) THEN unwrap(o) ELSE <<>>

\* the suffix tests with the library directory taking the scripts too
InstallDirNoSql(name) ==
    IF ends_with(name, <<".dylib">>) \/ ends_with(name, <<".so">>)
         \/ ends_with(name, <<".sql">>)
    THEN Some(LibraryDir)
    ELSE IF ends_with(name, <<".control">>) THEN Some(ExtensionDir)
    ELSE None

\* the directory the suffix of a file name routes it to, if any
InstallDir(name) ==
    IF ends_with(name, <<".dylib">>) \/ ends_with(name, <<".so">>)
    THEN Some(LibraryDir)
    ELSE IF ends_with(name, <<".control">>) \/ ends_with(name, <<".sql">>)
    THEN Some(ExtensionDir)
    ELSE None

\* ZipArchive::new
OpenZip ==
    /\ ipc = "open"
    /\ IF zip.valid THEN ipc' = "loop" /\ iret' = iret
       ELSE ipc' = "done" /\ iret' = Err("IoError", <<"Zip error">>)
    /\ UNCHANGED <<zip, ipos, ifiles, disk, aVars, xVars, rVars>>

\* one turn of `for i in 0..archive.len()`
InstallEntry ==
    /\ ipc = "loop"
    /\ ipos < Len(zip.entries)
    /\ LET file == zip.entries[ipos + 1]
           file_path == unwrap_or_default(file_name(file.name))
           dir == InstallDir(file_path)
       IN IF ~file.readable
          THEN /\ ipc' = "done" /\ iret' = Err("IoError", <<"Zip error">>)
               /\ UNCHANGED <<ipos, ifiles, disk>>
          ELSE IF dir = None
          THEN ipos' = ipos + 1 /\ UNCHANGED <<ipc, iret, ifiles, disk>>
          ELSE LET path == Append(unwrap(dir), file_path)
               IN \E written \in BOOLEAN :
                     IF written
                     THEN /\ disk' = Append(disk, [path |-> path, data |-> file.data])
                          /\ ifiles' = Append(ifiles, path)
                          /\ ipos' = ipos + 1
                          /\ UNCHANGED <<ipc, iret>>
                     ELSE /\ ipc' = "done" /\ iret' = Err("IoError", <<"write">>)
                          /\ UNCHANGED <<ipos, ifiles, disk>>
    /\ UNCHANGED <<zip, aVars, xVars, rVars>>

\* the loop is over: Ok(files)
InstallDone ==
    /\ ipc = "loop"
    /\ ipos = Len(zip.entries)
    /\ ipc' = "done"
    /\ iret' = Ok(ifiles)
    /\ UNCHANGED <<zip, ipos, ifiles, disk, aVars, xVars, rVars>>

ZipNames ==
    { <<<<"vector", ".so">>>>, <<<<"lib">>, <<"vector", ".dylib">>>>,
      <<<<"extension">>, <<"vector", ".control">>>>,
      <<<<"extension">>, <<"vector--0.7", ".sql">>>>,
      <<<<"old">>, <<"vector", ".so">>>>,
      <<<<"README", ".md">>>>, <<<<"vector", ".so", ".sig">>>>,
      <<<<"lib">>, <<"..">>>> }
ZipEntries ==
    {[name |-> n, data |-> <<"data of">> \o n, readable |-> TRUE] : n \in ZipNames}
      \cup {[name |-> <<<<"broken", ".so">>>>, data |-> <<>>, readable |-> FALSE]}

InitInstall ==
    /\ zip \in [valid : BOOLEAN, entries : SeqsUpTo(ZipEntries, MaxZipEntries)]
    /\ ipc = "open"
    /\ ipos = 0
    /\ ifiles = <<>>
    /\ disk = <<>>
    /\ iret = Pending
    /\ IdleArchive /\ IdleExtract /\ IdleRegistry

NextI == OpenZip \/ InstallEntry \/ InstallDone

SpecInstall == InitInstall /\ [][NextI]_vars

\* -------------------------------------------------------------- registries
\* A URL is the sequence of its segments. A registry is the sequence of its
\* entries in registration order; an entry's predicate is
\* |url| url.starts_with(prefix), kept as its prefix.
MaxRegistered == 2

\* portal_corp::URL
URL == <<"https://github.com", "portalcorp", "pgvector_compiled">>
Prefixes == {<<"https://github.com">>, <<"https://example.com", "catalog">>}
Urls ==
    { URL \o <<"releases">>, <<"https://example.com", "catalog", "x">>,
      <<"https://other.example">> }
Handlers == {"other"}

Entry(prefix, handler) == [prefix |-> prefix, handler |-> handler]
accepts(entry, url) == starts_with(url, entry.prefix)

\* registry::register: the entry is added after those already registered
register(registry, prefix, handler) == Append(registry, Entry(prefix, handler))

\* registry::resolve: the handler of the first entry, in registration order,
\* whose predicate accepts the url
resolve(registry, url) ==
    IF \E i \in DOMAIN registry : accepts(registry[i], url)
    THEN LET i == CHOOSE k \in DOMAIN registry :
                      /\ accepts(registry[k], url)
                      /\ \A m \in 1..(k - 1) : ~accepts(registry[m], url)
         IN Ok(<<registry[i].handler>>)
    ELSE Err("NotFound", url)

\* a registration by some other plugin, in either registry
Register ==
    /\ \E prefix \in Prefixes, handler \in Handlers :
          \/ /\ Len(matchers) < MaxRegistered
             /\ matchers' = register(matchers, prefix, handler)
             /\ UNCHANGED repositories
          \/ /\ Len(repositories) < MaxRegistered
             /\ repositories' = register(repositories, prefix, handler)
             /\ UNCHANGED matchers
    /\ UNCHANGED <<resolved, aVars, xVars, iVars>>

\* initialize with each registry emptied before its registration
InitializeAfresh ==
    /\ Len(matchers) < MaxRegistered
    /\ Len(repositories) < MaxRegistered
    /\ matchers' = register(<<>>, URL, "portal_corp::matcher")
    /\ repositories' = register(<<>>, URL, "GitHub::new")
    /\ UNCHANGED <<resolved, aVars, xVars, iVars>>

\* PortalCorp::initialize
Initialize ==
    /\ Len(matchers) < MaxRegistered
    /\ Len(repositories) < MaxRegistered
    /\ matchers' = register(matchers, URL, "portal_corp::matcher")
    /\ repositories' = register(repositories, URL, "GitHub::new")
    /\ UNCHANGED <<resolved, aVars, xVars, iVars>>

\* a call of resolve on either registry
Resolve ==
    /\ \E url \in Urls, which \in {"matchers", "repositories"} :
          resolved' = <<[registry |-> which, url |-> url,
                         ret |-> resolve(IF which = "matchers" THEN matchers
                                         ELSE repositories, url)]>>
    /\ UNCHANGED <<matchers, repositories, aVars, xVars, iVars>>

InitRegistry ==
    /\ matchers = <<>>
    /\ repositories = <<>>
    /\ resolved = <<>>
    /\ IdleArchive /\ IdleExtract /\ IdleInstall

NextR == Register \/ Initialize \/ Resolve

SpecRegistry == InitRegistry /\ [][NextR]_vars

\* ================================================= properties of archive.rs
Done == pc = "done"
Enumerating == pc # "idle" /\ ~FullySpecified(version)
Parses(tag) == from_str(tag) # None
AllParse == \A i \in DOMAIN catalog : Parses(catalog[i].tag_name)
VersionAt(i) == unwrap(from_str(catalog[i].tag_name))
\* the releases the constraint matches
Matching ==
    {i \in DOMAIN catalog : Parses(catalog[i].tag_name) /\ matches(version, VersionAt(i))}
\* a is greater than b by major, then minor, then patch (both fully specified)
Greater(a, b) ==
    LET ka == <<a.major, unwrap(a.minor), unwrap(a.release)>>
        kb == <<b.major, unwrap(b.minor), unwrap(b.release)>>
    IN \E i \in 1..3 : ka[i] > kb[i] /\ \A j \in 1..(i - 1) : ka[j] = kb[j]
PageRequests == SelectSeq(requests, LAMBDA r : r.kind = "page")
\* how many pages of the listing are not empty
NonEmptyPages == Cardinality({n \in 1..(Len(catalog) + 1) : Page(n) # <<>>})

\* C1: for a constraint that is not fully specified and a listing whose tags
\* all parse, get_release returns the release with the greatest matching
\* version, wherever in the listing it stands
C1_GreatestMatching ==
    (op = "get_release" /\ Done /\ Enumerating /\ AllParse /\ Matching # {}
       /\ ret.err # "Transport")
    => /\ ret.status = "Ok"
       /\ \E i \in Matching :
             /\ ret.value = <<catalog[i]>>
             /\ \A j \in Matching \ {i} : Greater(VersionAt(i), VersionAt(j))

C1_Witness ==
    /\ op = "get_release" /\ Done /\ Enumerating /\ AllParse
    /\ Cardinality(Matching) = 3
    /\ Len(PageRequests) >= 3
    /\ ret.status = "Ok"
    /\ ret.value = <<catalog[2]>>

\* C2: whenever no release of the catalog satisfies the constraint, the call
\* fails with ReleaseNotFound carrying the requested version string
C2_NotFoundIsReleaseNotFound ==
    (op \in {"get_release", "get_version", "get_asset"} /\ Done /\ AllParse
       /\ Matching = {} /\ ret.err # "Transport")
    => ret = Err("ReleaseNotFound", to_string(version))

\* what enumerating the whole listing and keeping the greatest match returns
Enumerated ==
    LET scan == ScanReleases(version, None, catalog)
    IN IF ~scan.ok THEN Err("InvalidVersion", scan.bad)
       ELSE IF is_some(scan.result) THEN Ok(<<unwrap(scan.result)>>)
       ELSE Err("ReleaseNotFound", to_string(version))

\* C7: for a fully specified constraint the lookup by tag returns what the
\* enumeration would: the same release, or the same failure
C7_LookupEqualsEnumeration ==
    (op = "get_release" /\ Done /\ FullySpecified(version) /\ ret.err # "Transport")
    => ret = Enumerated

\* C9: pages are requested in the order 1, 2, 3, ..., a page only after the
\* page before it came back non-empty, and a listing of k non-empty pages
\* takes exactly k + 1 page requests
C9_PagesInOrder ==
    Enumerating =>
      /\ \A i \in DOMAIN PageRequests : PageRequests[i].arg[1] = NatToString(i)
      /\ \A i \in 1..(Len(PageRequests) - 1) : Page(i) # <<>>
      /\ (pc # "release" /\ ret.err \notin {"Transport", "InvalidVersion"})
            => Len(PageRequests) = NonEmptyPages + 1

C9_Witness ==
    /\ Enumerating /\ Done /\ ret.status = "Ok"
    /\ NonEmptyPages = 2
    /\ Len(PageRequests) = 3

\* C10: when a release on a page fetched before the empty page has a tag that
\* does not parse, the call fails with the parse error for that tag: it
\* returns no release and does not report ReleaseNotFound
C10_BadTagIsHardError ==
    (Enumerating /\ Done /\ ret.err # "Transport" /\ ~AllParse)
    => /\ ret.status = "Err"
       /\ ret.err = "InvalidVersion"
       /\ ~Parses(ret.msg)
       /\ \E i \in DOMAIN catalog : ret.msg = catalog[i].tag_name

C10_Witness ==
    /\ Enumerating /\ Done /\ ret.err = "InvalidVersion"
    /\ is_some(result)
    /\ Len(PageRequests) >= 2

\* C4: get_asset succeeds exactly when the release lists both the archive
\* postgresql-<version>-<target>.tar.gz and that name plus .sha256; it then
\* returns the version of the tag, the archive and the checksum, in that
\* order, and otherwise fails with AssetNotFound carrying the archive's name
C4_AssetPair ==
    (op = "get_asset" /\ Done /\ release # NoRelease)
    => LET v == unwrap(from_str(release.tag_name))
           name == <<"postgresql-">> \o to_string(v) \o <<"-">> \o target
                     \o <<".tar.gz">>
           sum == name \o <<".sha256">>
           Has(n) == \E i \in DOMAIN release.assets : release.assets[i].name = n
       IN /\ ret.status = "Ok" <=> (Has(name) /\ Has(sum))
          /\ ret.status = "Ok" =>
                /\ Len(ret.value) = 3
                /\ ret.value[1] = v
                /\ ret.value[2].name = name
                /\ ret.value[3].name = sum
                /\ \A k \in {2, 3} :
                      \E i \in DOMAIN release.assets : release.assets[i] = ret.value[k]
          /\ ret.status # "Ok" => ret = Err("AssetNotFound", name)

C4_Witness ==
    /\ op = "get_asset" /\ Done /\ ret.status = "Ok"
    /\ Len(release.assets) = 3
    /\ release.assets[1] = ret.value[3]
    /\ release.assets[3] = ret.value[2]

\* the first run of 64 lowercase hexadecimal characters of a text
RunAt(text, i) ==
    i + 63 <= Len(text) /\ \A j \in 0..63 : text[i + j] \in HexDigits
HasRun(text) == \E i \in DOMAIN text : RunAt(text, i)
FirstRun(text) ==
    LET i == CHOOSE k \in DOMAIN text : RunAt(text, k) /\ \A m \in 1..(k - 1) : ~RunAt(text, m)
    IN [j \in 1..64 |-> text[i + j - 1]]
Rank(r) == CASE r.kind \in {"tag", "page"} -> 1 [] r.kind = "hash" -> 2 [] OTHER -> 3
Count(kind) == Len(SelectSeq(requests, LAMBDA r : r.kind = kind))

\* C8: get_archive_for_target looks up the release, selects the assets,
\* fetches the checksum text and finds the hash, then fetches the archive, in
\* that order, and a step is taken only if every step before it succeeded; a
\* checksum text without a run of 64 lowercase hexadecimal characters gives
\* AssetHashNotFound with the archive's name and no request for the archive;
\* the hash returned is the first such run
C8_StepsInOrder ==
    op = "get_archive_for_target" =>
      /\ \A i, j \in DOMAIN requests : i < j => Rank(requests[i]) <= Rank(requests[j])
      /\ Count("hash") <= 1 /\ Count("archive") <= 1
      /\ Count("hash") = 1 =>
            /\ release # NoRelease
            /\ Len(found) = 3
            /\ requests[Len(requests) - Count("archive")].arg = found[3].browser_download_url
      /\ Count("archive") = 1 =>
            /\ Count("hash") = 1
            /\ HasRun(body)
            /\ requests[Len(requests)].arg = found[2].browser_download_url
      /\ (Done /\ Count("hash") = 1 /\ ~HasRun(body) /\ ret.err # "Transport")
            => ret = Err("AssetHashNotFound", found[2].name)
      /\ (Done /\ ret.status = "Ok")
            => /\ Count("archive") = 1
               /\ ret.value[3] = FirstRun(body)
      /\ (Done /\ ret.status = "Err") =>
            \/ Count("hash") = 0
            \/ Count("archive") = 0
            \/ ret.err = "Transport"

C8_Witness ==
    /\ op = "get_archive_for_target" /\ Done /\ ret.status = "Ok"
    /\ body = HashB \o <<"\n">> \o HashA
    /\ ret.value[3] = HashB

\* =================================================== properties of extract
\* the stripped path of entry i leads out of the destination directory
Escapes(i) ==
    LET rel == strip_prefix(entries[i].path)
        Norm[k \in 0..Len(rel)] ==
            IF k = 0 THEN OutDir
            ELSE IF rel[k] = ".." THEN Parent(Norm[k - 1])
            ELSE Append(Norm[k - 1], rel[k])
    IN entries[i].path # <<>> /\ ~starts_with(Norm[Len(rel)], OutDir)

\* C3: extract writes nothing outside the destination directory, and an
\* entry whose stripped path leads outside it makes extract fail
C3_StaysInsideOutDir ==
    xret # "idle" =>
      /\ \A k \in DOMAIN xwritten : starts_with(xwritten[k], OutDir)
      /\ \A i \in 1..xpos : Escapes(i) => xret \notin {"running", "Ok"}

\* ======================================== properties of PortalCorp::install
Suffix(name) == IF name = <<>> THEN "" ELSE name[Len(name)]
LastName(e) ==
    IF e.name = <<>> \/ e.name[Len(e.name)] = <<"..">> THEN <<>>
    ELSE e.name[Len(e.name)]
\* the entries among the first n that are routed, in archive order, each with
\* the path it is written to
RECURSIVE Routed(_)
Routed(n) ==
    IF n = 0 THEN <<>>
    ELSE LET e == zip.entries[n]
             name == LastName(e)
         IN Routed(n - 1) \o
              (CASE Suffix(name) \in {".so", ".dylib"} ->
                      <<[path |-> <<"lib", name>>, data |-> e.data]>>
                 [] Suffix(name) \in {".control", ".sql"} ->
                      <<[path |-> <<"share", "extension", name>>, data |-> e.data]>>
                 [] OTHER -> <<>>)

\* C6: install writes every entry whose file name ends with .so or .dylib to
\* library_dir/<file name>, every entry whose file name ends with .control
\* or .sql to extension_dir/<file name>, and nothing else; on success it
\* returns the paths written, one per routed entry, in archive order
C6_RoutedBySuffix ==
    ipc # "idle" =>
      /\ disk = Routed(ipos)
      /\ iret.status = "Ok" =>
            /\ ipos = Len(zip.entries)
            /\ iret.value = [k \in DOMAIN disk |-> disk[k].path]

C6_Witness ==
    /\ iret.status = "Ok"
    /\ Len(zip.entries) = 3
    /\ Len(iret.value) = 2
    /\ iret.value[1] = <<"share", "extension", <<"vector--0.7", ".sql">>>>
    /\ iret.value[2] = <<"lib", <<"vector", ".so">>>>

\* ============================================= properties of the registries
\* the handler of the earliest entry of `registry` accepting `url`, if any
Earliest(registry, url) ==
    LET hits == {i \in DOMAIN registry :
                    /\ Len(registry[i].prefix) <= Len(url)
                    /\ SubSeq(url, 1, Len(registry[i].prefix)) = registry[i].prefix}
    IN IF hits = {} THEN <<>>
       ELSE <<registry[CHOOSE i \in hits : \A j \in hits : i <= j].handler>>
IsPrefixOf(a, b) == Len(a) <= Len(b) /\ SubSeq(b, 1, Len(a)) = a
RegistryOf(which) == IF which = "matchers" THEN matchers ELSE repositories

====
